---------------------------- MODULE Spec2Model ----------------------------
(***************************************************************************)
(* Change-detection and dispatch loops of neural-sales-mvp:                *)
(*   - auditor_vendas.py : local watchdog (hash + Supabase ledger)         *)
(*   - cloud_worker.py   : remote worker (input bucket -> output bucket)   *)
(* Texts are sequences of tokens; the section markers are single tokens.   *)
(***************************************************************************)
EXTENDS Naturals, Integers, Sequences, FiniteSets, TLC

VARIABLES
  an,         \* SpecAnalyze: one call of analyze_update (arguments, result)
  rt,         \* SpecRoundTrip: update_file_state followed by get_file_state
  fx,         \* SpecFlux: one call of FluxImageTool._run under its retry decorator
  gr,         \* SpecGraph: one run of the content graph of main.py
  ledger,     \* the table sales_memory: a set of rows
  now,        \* int(time.time())
  env,        \* what the environment has done: external writes, failed requests
  files,      \* local: the content of each file under inputs/
  reports,    \* local: the files under outputs/, name -> content
  pc,         \* local: where each watchdog process is
  walk,       \* local: the state of os.walk in each process
  loc,        \* local: the loop body's variables in each process
  cyc,        \* local: what the current pass has done (history)
  hist,       \* local: what has happened so far (history)
  bucketIn,   \* remote: bucket sales-logs, key -> content
  bucketOut,  \* remote: bucket sales-reports, name -> content
  rpc,        \* remote: where worker_loop is
  rwalk,      \* remote: the state of the two for loops
  rloc,       \* remote: process_file's variables
  rcyc,       \* remote: what the current pass has done (history)
  rhist       \* remote: what has happened so far (history)

sharedVars == << ledger, now, env >>
localOnly == << files, reports, pc, walk, loc, cyc, hist >>
localVars == << sharedVars, localOnly >>
remoteVars == << bucketIn, bucketOut, rpc, rwalk, rloc, rcyc, rhist >>
vars == << an, rt, fx, gr, sharedVars, localOnly, remoteVars >>

(***************************************************************************)
(* Bounds of the model.                                                    *)
(***************************************************************************)
\* longest model response, in tokens, enumerated for analyze_update
MaxLen == 3
\* number of poll cycles a loop runs before the model stops following it
MaxCycles == 2
\* number of writes the external file writer / uploader performs
MaxWrites == 2
\* number of requests (ledger, provider, disk, storage) that fail
MaxFaults == 2

(***************************************************************************)
(* Text values.                                                            *)
(***************************************************************************)
\* Python's None (for a hash or a summary)
None == <<"None">>
\* the empty string
EmptyStr == << >>
RELATORIO == "[RELATORIO]"
RESUMO == "[RESUMO]"
\* tokens a model response is made of: the two markers, whitespace, a word
Tok == {RELATORIO, RESUMO, " ", "x"}
ResumoMantido == <<"Resumo mantido.">>
ErroNaAnalise == <<"Erro na analise.">>

\* index of the first occurrence of token t in s, 0 when absent
FirstIdx(s, t) ==
  IF \E i \in 1..Len(s) : s[i] = t
  THEN CHOOSE i \in 1..Len(s) : s[i] = t /\ \A j \in 1..(i-1) : s[j] /= t
  ELSE 0

\* str.split(sep): the list of the parts between the occurrences of sep
RECURSIVE Split(_, _)
Split(s, sep) ==
  LET k == FirstIdx(s, sep)
  IN IF k = 0 THEN << s >>
     ELSE << SubSeq(s, 1, k-1) >> \o Split(SubSeq(s, k+1, Len(s)), sep)

\* str.replace(old, ""): every occurrence of old removed
RemoveAll(s, old) == SelectSeq(s, LAMBDA t : t /= old)

RECURSIVE LStrip(_)
LStrip(s) == IF s /= << >> /\ Head(s) = " " THEN LStrip(Tail(s)) ELSE s
RECURSIVE RStrip(_)
RStrip(s) ==
  IF s /= << >> /\ s[Len(s)] = " " THEN RStrip(SubSeq(s, 1, Len(s)-1)) ELSE s
\* str.strip()
Strip(s) == RStrip(LStrip(s))

\* Python truthiness of an optional string
Truthy(s) == s /= None /\ s /= EmptyStr

(***************************************************************************)
(* analyze_update (auditor_vendas.py 77-115).  The provider's answer is an *)
(* input: either a response text or an exception raised by llm.invoke.     *)
(***************************************************************************)
LlmOk(content) == [ok |-> TRUE, content |-> content]
LlmError == [ok |-> FALSE, content |-> EmptyStr]

\* the part of the prompt that depends on the arguments
BuildPrompt(salesperson_name, filename, full_text, previous_summary) ==
  [ context |-> IF Truthy(previous_summary) THEN previous_summary ELSE EmptyStr,
    vendedor |-> salesperson_name,
    arquivo |-> filename,
    conversa |-> full_text ]

ParseSummary(parts) ==
  IF Len(parts) > 1 THEN Strip(parts[2]) ELSE ResumoMantido

ParseReport(parts) == Strip(RemoveAll(parts[1], RELATORIO))

\* analyze_update whose handler drops the summary it was given
analyze_update_forgetful(previous_summary, outcome) ==
  IF outcome.ok
  THEN LET parts == Split(outcome.content, RESUMO)
       IN [ report |-> ParseReport(parts), new_summary |-> ParseSummary(parts),
            raised |-> FALSE ]
  ELSE [ report |-> ErroNaAnalise, new_summary |-> None, raised |-> FALSE ]

analyze_update(previous_summary, outcome) ==
  IF outcome.ok
  THEN LET parts == Split(outcome.content, RESUMO)
       IN [ report |-> ParseReport(parts), new_summary |-> ParseSummary(parts),
            raised |-> FALSE ]
  ELSE [ report |-> ErroNaAnalise, new_summary |-> previous_summary,
         raised |-> FALSE ]


(***************************************************************************)
(* SpecAnalyze: analyze_update applied to every previous summary and every *)
(* provider outcome within the bounds.                                     *)
(***************************************************************************)
\* all token sequences of length at most n
RECURSIVE SeqsUpTo(_)
SeqsUpTo(n) ==
  IF n = 0 THEN { << >> }
  ELSE LET shorter == SeqsUpTo(n - 1)
       IN shorter \cup { Append(s, t) : s \in { x \in shorter : Len(x) = n - 1 }, t \in Tok }

Responses == SeqsUpTo(MaxLen)
PrevSummaries == { None, EmptyStr, <<"x">>, <<"x", " ", "x">> }
Outcomes == { LlmOk(c) : c \in Responses } \cup { LlmError }

AnIdle == [ pc |-> "idle", prev |-> None, outcome |-> LlmError,
            result |-> [report |-> EmptyStr, new_summary |-> None, raised |-> FALSE] ]

InitAnalyze ==
  an \in { [AnIdle EXCEPT !.pc = "call", !.prev = p, !.outcome = o] :
             p \in PrevSummaries, o \in Outcomes }

AnalyzeCall ==
  /\ an.pc = "call"
  /\ an' = [an EXCEPT !.pc = "returned",
                      !.result = analyze_update(an.prev, an.outcome)]
  /\ UNCHANGED << rt, fx, gr, sharedVars, localOnly, remoteVars >>

(***************************************************************************)
(* Local variant: auditor_vendas.py.                                       *)
(***************************************************************************)
INPUT_ROOT == "inputs"
OUTPUT_ROOT == "outputs"
\* time.sleep(10) at the end of a local cycle
LocalSleep == 10
\* the whole seconds of the clock that go by during a call of the language
\* model: the clock is read again only after such a call (line 155 of
\* auditor_vendas.py, line 47 of cloud_worker.py)
LlmSeconds == {0, 1}

\* dispatcher processes; the second one runs only in the two-process specification
Instances == {1, 2}

\* file contents: two valid UTF-8 texts and a byte string that is not UTF-8
Bytes == {"A", "B", "\\xff"}
Absent == "absent"
Decodable(b) == b /= "\\xff"

Slot(root, filename) == [root |-> root, filename |-> filename]
AnaDir == <<INPUT_ROOT, "Vendedor_Ana">>
BrunoDir == <<INPUT_ROOT, "Vendedor_Bruno">>
AnaC1 == Slot(AnaDir, <<"cliente1", ".txt">>)
AnaNotes == Slot(AnaDir, <<"notas", ".md">>)
BrunoX == Slot(BrunoDir, <<"x", ".txt">>)
\* a file named cliente1.txt.txt, next to cliente1.txt
AnaC1Twice == Slot(AnaDir, <<"cliente1", ".txt", ".txt">>)
RootTxt == Slot(<<INPUT_ROOT>>, <<"solto", ".txt">>)
\* a file in a sub-directory of a salesperson's directory
AnaYearDir == <<INPUT_ROOT, "Vendedor_Ana", "2024">>
AnaDeep == Slot(AnaYearDir, <<"c", ".txt">>)
\* files that come and go while the watchdog runs
DynSlots == {AnaC1, BrunoX, AnaC1Twice, AnaDeep}
\* files that are there from the start and never change
StaticSlots == {AnaNotes, RootTxt}
Slots == DynSlots \cup StaticSlots
\* the contents the external writer gives each file; cliente1.txt.txt and
\* 2024/c.txt are there from the start or never
SlotBytes(s) ==
  IF s = BrunoX THEN {"A"} ELSE IF s \in {AnaC1Twice, AnaDeep} THEN {} ELSE Bytes

\* the orders in which a set of directory entries can be listed: os.walk
\* takes the order of os.scandir, which is the file system's
Perms(S) ==
  { f \in [1..Cardinality(S) -> S] : \A a \in S : \E k \in DOMAIN f : f[k] = a }

\* the file names a directory can hold
DirEntries(root) ==
  IF root = AnaDir
  THEN { <<"notas", ".md">>, <<"cliente1", ".txt">>, <<"cliente1", ".txt", ".txt">> }
  ELSE IF root = BrunoDir THEN { <<"x", ".txt">> }
  ELSE IF root = AnaYearDir THEN { <<"c", ".txt">> }
  ELSE { <<"solto", ".txt">> }

\* the `files` lists os.walk can yield for root: the entries that exist now,
\* in any order
ListFiles(root, fs) ==
  Perms({ f \in DirEntries(root) : fs[Slot(root, f)] /= Absent })

\* the sub-directories of root that exist now; Vendedor_Ana/2024 exists when
\* it holds its file
SubDirs(root, fs) ==
  IF root = <<INPUT_ROOT>> THEN {AnaDir, BrunoDir}
  ELSE IF root = AnaDir /\ fs[AnaDeep] /= Absent THEN {AnaYearDir}
  ELSE {}

\* the `dirs` lists os.walk can yield for root
ListDirs(root, fs) == Perms(SubDirs(root, fs))

basename(root) == root[Len(root)]
\* str.endswith(".txt")
EndsWithTxt(filename) == filename /= << >> /\ filename[Len(filename)] = ".txt"
\* os.path.relpath(os.path.join(root, filename), INPUT_ROOT)
relative_path(root, filename) == [dirs |-> Tail(root), filename |-> filename]

\* hashlib.md5(bytes).hexdigest(): distinct contents have distinct digests
calculate_file_hash(bytes) == <<"md5", bytes>>

(* ---- Memory Ledger: table sales_memory ---- *)
Rows(table, file_path) == { r \in table : r.file_path = file_path }

\* get_file_state without its except: the failure of the request goes
\* unnoticed and the stored row is returned
get_file_state_unguarded(table, file_path, request_ok) ==
  IF Rows(table, file_path) /= {}
  THEN LET r == CHOOSE x \in Rows(table, file_path) : TRUE
       IN << r.last_hash, r.last_summary >>
  ELSE << None, None >>

\* get_file_state selecting the digest only
get_file_state_hash_only(table, file_path, request_ok) ==
  IF request_ok /\ Rows(table, file_path) /= {}
  THEN LET r == CHOOSE x \in Rows(table, file_path) : TRUE
       IN << r.last_hash, None >>
  ELSE << None, None >>

\* get_file_state: the first row of the answer, (None, None) when there is
\* none or when the request raised
get_file_state(table, file_path, request_ok) ==
  IF request_ok /\ Rows(table, file_path) /= {}
  THEN LET r == CHOOSE x \in Rows(table, file_path) : TRUE
       IN << r.last_hash, r.last_summary >>
  ELSE << None, None >>

\* an upsert that replaces the whole table by the new row
update_file_state_truncating(table, file_path, salesperson, current_hash, summary, request_ok) ==
  IF request_ok
  THEN { [ file_path |-> file_path, salesperson |-> salesperson,
           last_hash |-> current_hash, last_summary |-> summary ] }
  ELSE table

\* an insert that leaves the path's earlier row in the table
update_file_state_insert(table, file_path, salesperson, current_hash, summary, request_ok) ==
  IF request_ok
  THEN table \cup { [ file_path |-> file_path, salesperson |-> salesperson,
                      last_hash |-> current_hash, last_summary |-> summary ] }
  ELSE table

\* an upsert done as delete-then-insert: a failure leaves the path without
\* its row
update_file_state_clearing(table, file_path, salesperson, current_hash, summary, request_ok) ==
  (table \ Rows(table, file_path)) \cup
    IF request_ok
    THEN { [ file_path |-> file_path, salesperson |-> salesperson,
             last_hash |-> current_hash, last_summary |-> summary ] }
    ELSE {}

\* upsert(data, on_conflict="file_path"); an exception is swallowed.  The
\* column updated_at is set by the database and is left out.
update_file_state(table, file_path, salesperson, current_hash, summary, request_ok) ==
  IF request_ok
  THEN (table \ Rows(table, file_path)) \cup
         { [ file_path |-> file_path, salesperson |-> salesperson,
             last_hash |-> current_hash, last_summary |-> summary ] }
  ELSE table

(* ---- SpecRoundTrip: an upsert followed by a lookup of the same path ---- *)
RtPaths == { relative_path(AnaDir, <<"cliente1", ".txt">>),
             relative_path(BrunoDir, <<"x", ".txt">>) }
RtHashes == { calculate_file_hash("A"), calculate_file_hash("B") }
RtSummaries == { None, EmptyStr, <<"x">>, ResumoMantido }
\* the tables the round trip starts from: at most one row per path
RtRows == [ file_path : RtPaths, salesperson : {"Vendedor_Ana"},
            last_hash : {calculate_file_hash("A")}, last_summary : {None, <<"x">>} ]
RtTables == { t \in SUBSET RtRows : \A p \in RtPaths : Cardinality(Rows(t, p)) <= 1 }

RtIdle == [ pc |-> "idle", table |-> {}, file_path |-> << >>, current_hash |-> None,
            summary |-> None, update_ok |-> TRUE, get_ok |-> TRUE,
            got |-> << None, None >> ]

InitRt ==
  rt \in { [RtIdle EXCEPT !.pc = "update", !.table = t, !.file_path = p,
                          !.current_hash = h, !.summary = m,
                          !.update_ok = u, !.get_ok = g] :
             t \in RtTables, p \in RtPaths, h \in RtHashes, m \in RtSummaries,
             u \in BOOLEAN, g \in BOOLEAN }

\* update_file_state(file_path, salesperson, current_hash, summary)
RtUpdate ==
  /\ rt.pc = "update"
  /\ rt' = [rt EXCEPT !.pc = "get",
                      !.table = update_file_state(rt.table, rt.file_path, "Vendedor_Ana",
                                  rt.current_hash, rt.summary, rt.update_ok)]
  /\ UNCHANGED << an, fx, gr, sharedVars, localOnly, remoteVars >>

\* get_file_state(file_path)
RtGet ==
  /\ rt.pc = "get"
  /\ rt' = [rt EXCEPT !.pc = "done",
                      !.got = get_file_state(rt.table, rt.file_path, rt.get_ok)]
  /\ UNCHANGED << an, fx, gr, sharedVars, localOnly, remoteVars >>

\* line 143 asking only whether the path has a record
HasChanged_new_only(current_hash, last_hash) == last_hash = None

\* mutant of HasChanged: the comparison is lost and every file is new work
HasChangedAlways(current_hash, last_hash) == TRUE

\* line 143: the item is new work
HasChanged(current_hash, last_hash) == current_hash /= last_hash

(* ---- Report Sink ---- *)
ReportName(root, filename, timestamp) ==
  [ dir |-> <<OUTPUT_ROOT, basename(root)>>,
    stem |-> RemoveAll(filename, ".txt"), ts |-> timestamp ]
\* the file of that name holds content from now on
WriteReport(sink, name, content) == (name :> content) @@ sink

(* ---- File contents, byte by byte ---- *)
\* the number of bytes of a token's text in UTF-8 (an accented letter takes
\* two); the tokens not listed are single characters
ByteLen(tok) ==
  CASE tok = "Erro na analise." -> 17
    [] tok = RELATORIO -> 11
    [] tok = RESUMO -> 8
    [] tok = "Resumo mantido." -> 15
    [] tok = "# Post LinkedIn Gerado em " -> 26
    [] tok = "%Y_%m_%d__%H_%M_%S" -> 20
    [] tok = "\n\n## Entrada Original\n" -> 22
    [] tok = "idea" -> 4
    [] tok = "\n\n## --- CONTEUDO FINAL ---\n" -> 29
    [] tok = "Conteudo salvo via estado." -> 27
    [] OTHER -> 1
\* the bytes lo..hi of a token's text
Piece(tok, lo, hi) == [tok |-> tok, lo |-> lo, hi |-> hi]
\* the bytes f.write hands to the file: the text encoded as UTF-8
Encode(text) == [k \in DOMAIN text |-> Piece(text[k], 1, ByteLen(text[k]))]
RECURSIVE Size(_)
Size(c) == IF c = << >> THEN 0 ELSE (Head(c).hi - Head(c).lo + 1) + Size(Tail(c))
\* the first n bytes of c
RECURSIVE TakeBytes(_, _)
TakeBytes(c, n) ==
  IF n <= 0 \/ c = << >> THEN << >>
  ELSE LET p == Head(c)
           m == p.hi - p.lo + 1
       IN IF n >= m THEN << p >> \o TakeBytes(Tail(c), n - m)
          ELSE << Piece(p.tok, p.lo, p.lo + n - 1) >>
\* c without its first n bytes
RECURSIVE DropBytes(_, _)
DropBytes(c, n) ==
  IF n <= 0 \/ c = << >> THEN c
  ELSE LET p == Head(c)
           m == p.hi - p.lo + 1
       IN IF n >= m THEN DropBytes(Tail(c), n - m)
          ELSE << Piece(p.tok, p.lo + n, p.hi) >> \o Tail(c)
\* two runs of bytes one after the other; two parts of one token that meet
\* are one part
Join(a, b) ==
  IF a /= << >> /\ b /= << >> /\ a[Len(a)].tok = Head(b).tok
     /\ a[Len(a)].hi + 1 = Head(b).lo
  THEN SubSeq(a, 1, Len(a) - 1) \o << Piece(Head(b).tok, a[Len(a)].lo, Head(b).hi) >>
       \o Tail(b)
  ELSE a \o b
\* write(2) of data at offset 0 of a file holding `existing`: the bytes
\* beyond the data stay
WriteAt(existing, data) == Join(data, DropBytes(existing, Size(data)))
\* what reaches the file when a write of content fails: its first n bytes,
\* for any n short of all
Torn(content) == { TakeBytes(content, n) : n \in 0..(Size(content) - 1) }

(* ---- the walk ---- *)
NoWalk == [root |-> << >>, filesLeft |-> << >>, dirsLeft |-> << >>]

\* os.walk, top-down, resumed for the next directory: the head of the
\* pending directories is listed, its sub-directories go to the front of the
\* pending ones; the loop body skips the input root itself (line 130) and
\* files of other extensions (line 133)
EnterDir(dirsLeft, filesListed, dirsListed) ==
  LET d == Head(dirsLeft)
  IN [ root |-> d,
       filesLeft |-> IF basename(d) = INPUT_ROOT THEN << >>
                     ELSE SelectSeq(filesListed, EndsWithTxt),
       dirsLeft |-> dirsListed \o Tail(dirsLeft) ]

\* where the two for loops go from the walk state w: to the next .txt file of
\* the directory at hand, to the listing of the next directory, or to the
\* sleep after the walk
NextItem(w) ==
  IF w.filesLeft /= << >>
  THEN [pc |-> "hash", found |-> TRUE, root |-> w.root, filename |-> Head(w.filesLeft),
        walk |-> [w EXCEPT !.filesLeft = Tail(w.filesLeft)]]
  ELSE IF w.dirsLeft /= << >>
  THEN [pc |-> "list", found |-> FALSE, root |-> << >>, filename |-> << >>, walk |-> w]
  ELSE [pc |-> "sleep", found |-> FALSE, root |-> << >>, filename |-> << >>,
        walk |-> NoWalk]

NoLoc == [ slot |-> RootTxt, current_hash |-> None, hashed |-> Absent,
           last_hash |-> None, last_summary |-> None, lookup_ok |-> TRUE,
           text |-> Absent, provider_ok |-> TRUE,
           report |-> EmptyStr, new_summary |-> None, prompt_context |-> EmptyStr,
           timestamp |-> 0, wake |-> 0 ]

ZeroCount == [s \in DynSlots |-> 0]
NoFlags == [s \in DynSlots |-> FALSE]
NewCycle(n) == [ n |-> n, analyze |-> ZeroCount, upsert |-> ZeroCount,
                 changed |-> NoFlags, unchanged |-> NoFlags,
                 listed |-> << >>, order |-> << >> ]
\* the items of the directory the walk has entered, in the order of its
\* listing
ListedItems(w) == [k \in 1..Len(w.filesLeft) |-> Slot(w.root, w.filesLeft[k])]

\* the model responses the dispatcher specifications draw from: with and
\* without the summary marker, and with nothing after the marker
LoopResponses ==
  { <<RELATORIO, "x", RESUMO, "x">>, <<"x">>, <<RELATORIO, "x", RESUMO>> }
LoopOutcomes == { LlmOk(c) : c \in LoopResponses } \cup { LlmError }

(* ---- start_watchdog (auditor_vendas.py 118-168), one action per step ---- *)

\* the outcomes of a request to an external service: success, or failure
\* while the budget of failures lasts
RequestOutcomes == IF env.faults < MaxFaults THEN {TRUE, FALSE} ELSE {TRUE}
Fault(ok) == [env EXCEPT !.faults = IF ok THEN @ ELSE @ + 1]

\* the input directory at the start: the static files only
EmptyInputs == [s \in Slots |-> IF s \in StaticSlots THEN "A" ELSE Absent]
\* the input directory holding cliente1.txt and cliente1.txt.txt
TwinInputs == [EmptyInputs EXCEPT ![AnaC1] = "A", ![AnaC1Twice] = "A"]

\* the input directory holding Vendedor_Ana/2024/c.txt
DeepInputs == [EmptyInputs EXCEPT ![AnaDeep] = "A"]
\* the input directory holding cliente1.txt only
OneInput == [EmptyInputs EXCEPT ![AnaC1] = "A"]

InitLocalFrom(running, fs) ==
  /\ files = fs
  /\ ledger = {}
  /\ reports = << >>
  /\ now = 0
  /\ env = [writes |-> 0, faults |-> 0]
  /\ pc = [i \in Instances |-> IF i \in running THEN "start" ELSE "off"]
  /\ walk = [i \in Instances |-> NoWalk]
  /\ loc = [i \in Instances |-> NoLoc]
  /\ cyc = [i \in Instances |-> NewCycle(0)]
  /\ hist = [ lastStored |-> [s \in DynSlots |-> Absent],
              lastSummary |-> [s \in DynSlots |-> None],
              written |-> [s \in DynSlots |-> 0],
              processed |-> [s \in DynSlots |-> {}],
              crashAt |-> [i \in Instances |-> "none"],
              stoppedAt |-> [i \in Instances |-> "none"],
              degraded |-> [s \in DynSlots |-> FALSE] ]

InitLocalState(running) == InitLocalFrom(running, EmptyInputs)

\* an uncaught exception leaves start_watchdog: only KeyboardInterrupt is
\* caught (line 167); the function's locals are gone with its frame
Crash(i, step) ==
  /\ pc' = [pc EXCEPT ![i] = "crashed"]
  /\ hist' = [hist EXCEPT !.crashAt[i] = step]
  /\ loc' = [loc EXCEPT ![i] = NoLoc]
  /\ walk' = [walk EXCEPT ![i] = NoWalk]

\* the loop moves on to the next .txt file, or to the sleep after the walk
MoveOn(i, nx) ==
  /\ walk' = [walk EXCEPT ![i] = nx.walk]
  /\ pc' = [pc EXCEPT ![i] = nx.pc]

NextLoc(i, nx) == IF nx.found THEN [NoLoc EXCEPT !.slot = Slot(nx.root, nx.filename)]
                  ELSE NoLoc

\* line 127-128: a new pass of `while True` starts the walk, which lists the
\* input root
StartCycle(i) ==
  /\ pc[i] = "start"
  /\ cyc[i].n < MaxCycles
  /\ \E fl \in ListFiles(<<INPUT_ROOT>>, files), dl \in ListDirs(<<INPUT_ROOT>>, files) :
       LET entered == EnterDir(<< <<INPUT_ROOT>> >>, fl, dl)
           nx == NextItem(entered)
       IN /\ MoveOn(i, nx)
          /\ loc' = [loc EXCEPT ![i] = NextLoc(i, nx)]
          /\ cyc' = [cyc EXCEPT ![i] = [NewCycle(cyc[i].n + 1) EXCEPT
                                         !.listed = ListedItems(entered)]]
  /\ UNCHANGED << files, ledger, reports, now, env, hist >>
  /\ UNCHANGED << an, rt, fx, gr, remoteVars >>

\* line 128: the for loop asks os.walk for the next directory, which is
\* listed now
LocalList(i) ==
  /\ pc[i] = "list"
  /\ LET d == Head(walk[i].dirsLeft)
     IN \E fl \in ListFiles(d, files), dl \in ListDirs(d, files) :
          LET entered == EnterDir(walk[i].dirsLeft, fl, dl)
              nx == NextItem(entered)
          IN /\ MoveOn(i, nx)
             /\ loc' = [loc EXCEPT ![i] = NextLoc(i, nx)]
             /\ cyc' = [cyc EXCEPT ![i].listed = ListedItems(entered),
                                   ![i].order = << >>]
  /\ UNCHANGED << files, ledger, reports, now, env, hist >>
  /\ UNCHANGED << an, rt, fx, gr, remoteVars >>

\* line 138: current_hash = calculate_file_hash(full_path)
LocalHash(i) ==
  /\ pc[i] = "hash"
  /\ LET b == files[loc[i].slot]
     IN IF b = Absent
        THEN Crash(i, "hash")
        ELSE /\ loc' = [loc EXCEPT ![i].current_hash = calculate_file_hash(b),
                                   ![i].hashed = b]
             /\ pc' = [pc EXCEPT ![i] = "get"]
             /\ UNCHANGED << hist, walk >>
  /\ cyc' = [cyc EXCEPT ![i].order = Append(@, loc[i].slot)]
  /\ UNCHANGED << files, ledger, reports, now, env >>
  /\ UNCHANGED << an, rt, fx, gr, remoteVars >>

\* lines 141-143 with the ledger update moved ahead of the analysis: the new
\* digest is stored as soon as the file is found changed
LocalGet_marking(i) ==
  /\ pc[i] = "get"
  /\ \E request_ok \in RequestOutcomes :
       LET s == loc[i].slot
           key == relative_path(s.root, s.filename)
           got == get_file_state(ledger, key, request_ok)
           nx == NextItem(walk[i])
       IN /\ IF HasChanged(loc[i].current_hash, got[1])
             THEN /\ loc' = [loc EXCEPT ![i].last_hash = got[1],
                                        ![i].last_summary = got[2],
                                        ![i].lookup_ok = request_ok]
                  /\ ledger' = update_file_state(ledger, key, basename(s.root),
                                  loc[i].current_hash, got[2], TRUE)
                  /\ pc' = [pc EXCEPT ![i] = "read"]
                  /\ UNCHANGED walk
             ELSE /\ MoveOn(i, nx)
                  /\ loc' = [loc EXCEPT ![i] = NextLoc(i, nx)]
                  /\ UNCHANGED ledger
          /\ env' = Fault(request_ok)
  /\ UNCHANGED << files, reports, now, hist, cyc >>
  /\ UNCHANGED << an, rt, fx, gr, remoteVars >>

\* lines 141-143: the ledger lookup and the comparison of the two digests
LocalGet(i) ==
  /\ pc[i] = "get"
  /\ \E request_ok \in RequestOutcomes :
       LET s == loc[i].slot
           key == relative_path(s.root, s.filename)
           got == get_file_state(ledger, key, request_ok)
           stored == Rows(ledger, key)
           same == \E r \in stored : r.last_hash = loc[i].current_hash
           nx == NextItem(walk[i])
       IN /\ cyc' = [cyc EXCEPT ![i].changed[s] = ~same,
                                ![i].unchanged[s] = same /\ request_ok]
          /\ IF HasChanged(loc[i].current_hash, got[1])
             THEN /\ loc' = [loc EXCEPT ![i].last_hash = got[1],
                                        ![i].last_summary = got[2],
                                        ![i].lookup_ok = request_ok]
                  /\ pc' = [pc EXCEPT ![i] = "read"]
                  /\ UNCHANGED walk
             ELSE /\ MoveOn(i, nx)
                  /\ loc' = [loc EXCEPT ![i] = NextLoc(i, nx)]
          /\ env' = Fault(request_ok)
  /\ UNCHANGED << files, ledger, reports, now, hist >>
  /\ UNCHANGED << an, rt, fx, gr, remoteVars >>

\* line 149: text = read_file(full_path), which decodes UTF-8
LocalRead(i) ==
  /\ pc[i] = "read"
  /\ LET b == files[loc[i].slot]
     IN IF b = Absent \/ ~Decodable(b)
        THEN Crash(i, "read")
        ELSE /\ loc' = [loc EXCEPT ![i].text = b]
             /\ pc' = [pc EXCEPT ![i] = "analyze"]
             /\ UNCHANGED << hist, walk >>
  /\ UNCHANGED << files, ledger, reports, now, env, cyc >>
  /\ UNCHANGED << an, rt, fx, gr, remoteVars >>

\* line 150: report, new_summary = analyze_update(...); the clock goes on
\* during the call (line 155 reads it after it)
LocalAnalyze(i) ==
  /\ pc[i] = "analyze"
  /\ \E o \in { x \in LoopOutcomes : x.ok \in RequestOutcomes } :
       LET s == loc[i].slot
           res == analyze_update(loc[i].last_summary, o)
           prompt == BuildPrompt(basename(s.root), s.filename, loc[i].text,
                                 loc[i].last_summary)
       IN /\ loc' = [loc EXCEPT ![i].report = res.report,
                                ![i].new_summary = res.new_summary,
                                ![i].provider_ok = o.ok,
                                ![i].prompt_context = prompt.context]
          /\ cyc' = [cyc EXCEPT ![i].analyze[s] = @ + 1]
          /\ env' = Fault(o.ok)
  /\ \E d \in LlmSeconds : now' = now + d
  /\ pc' = [pc EXCEPT ![i] = "stamp"]
  /\ UNCHANGED << files, ledger, reports, walk, hist >>
  /\ UNCHANGED << an, rt, fx, gr, remoteVars >>

\* lines 153-155: os.makedirs(output_dir), which can fail, then the clock is
\* read for the report's name
LocalStamp(i) ==
  /\ pc[i] = "stamp"
  /\ \E io_ok \in RequestOutcomes :
       /\ env' = Fault(io_ok)
       /\ IF io_ok
          THEN /\ loc' = [loc EXCEPT ![i].timestamp = now]
               /\ pc' = [pc EXCEPT ![i] = "open"]
               /\ UNCHANGED << hist, walk >>
          ELSE Crash(i, "write")
  /\ UNCHANGED << files, ledger, reports, now, cyc >>
  /\ UNCHANGED << an, rt, fx, gr, remoteVars >>

\* line 158: open(path, "w") creates the file or empties the one of that
\* name; when it fails the file is not touched
LocalOpen(i) ==
  /\ pc[i] = "open"
  /\ \E io_ok \in RequestOutcomes :
       LET name == ReportName(loc[i].slot.root, loc[i].slot.filename, loc[i].timestamp)
       IN /\ env' = Fault(io_ok)
          /\ IF io_ok
             THEN /\ reports' = WriteReport(reports, name, << >>)
                  /\ pc' = [pc EXCEPT ![i] = "write"]
                  /\ UNCHANGED << hist, walk, loc >>
             ELSE /\ Crash(i, "write")
                  /\ UNCHANGED reports
  /\ UNCHANGED << files, ledger, now, cyc >>
  /\ UNCHANGED << an, rt, fx, gr, remoteVars >>

\* line 159 and the end of the with block: the report's bytes go to the
\* file from its start, over what it holds by now (another process may have
\* written it since line 158); a failing write leaves the first bytes only
LocalWrite(i) ==
  /\ pc[i] = "write"
  /\ \E io_ok \in RequestOutcomes :
       LET name == ReportName(loc[i].slot.root, loc[i].slot.filename, loc[i].timestamp)
           data == Encode(loc[i].report)
       IN /\ env' = Fault(io_ok)
          /\ IF io_ok
             THEN /\ reports' = WriteReport(reports, name, WriteAt(reports[name], data))
                  /\ pc' = [pc EXCEPT ![i] = "upsert"]
                  /\ UNCHANGED << hist, walk, loc >>
             ELSE /\ Crash(i, "write")
                  /\ \E part \in Torn(data) :
                       reports' = WriteReport(reports, name, WriteAt(reports[name], part))
  /\ UNCHANGED << files, ledger, now, cyc >>
  /\ UNCHANGED << an, rt, fx, gr, remoteVars >>

\* line 162: update_file_state(relative_path, folder, current_hash, new_summary)
LocalUpsert(i) ==
  /\ pc[i] = "upsert"
  /\ \E request_ok \in RequestOutcomes :
       LET s == loc[i].slot
           nx == NextItem(walk[i])
       IN /\ ledger' = update_file_state(ledger, relative_path(s.root, s.filename),
                         basename(s.root), loc[i].current_hash,
                         loc[i].new_summary, request_ok)
          /\ cyc' = [cyc EXCEPT ![i].upsert[s] = @ + 1]
          /\ hist' = [hist EXCEPT
                        !.lastStored[s] = IF request_ok THEN loc[i].hashed ELSE @,
                        !.lastSummary[s] = IF request_ok THEN loc[i].new_summary ELSE @,
                        !.processed[s] = @ \cup {loc[i].hashed},
                        !.degraded[s] = IF request_ok THEN ~loc[i].provider_ok ELSE @]
          /\ MoveOn(i, nx)
          /\ loc' = [loc EXCEPT ![i] = NextLoc(i, nx)]
          /\ env' = Fault(request_ok)
  /\ UNCHANGED << files, reports, now >>
  /\ UNCHANGED << an, rt, fx, gr, remoteVars >>

\* line 165: time.sleep(10) is called; it is to return LocalSleep seconds
\* from now
LocalSleepStep(i) ==
  /\ pc[i] = "sleep"
  /\ loc' = [loc EXCEPT ![i].wake = now + LocalSleep]
  /\ pc' = [pc EXCEPT ![i] = "asleep"]
  /\ UNCHANGED << files, ledger, reports, now, env, walk, cyc, hist >>
  /\ UNCHANGED << an, rt, fx, gr, remoteVars >>

\* line 165: time.sleep returns once its seconds have gone by, then the next
\* pass.  The clock is the machine's: while this process slept, the calls
\* and the sleeps of another process moved it too, so it is at the time to
\* wake or past it.
LocalWake(i) ==
  /\ pc[i] = "asleep"
  /\ now' = IF now < loc[i].wake THEN loc[i].wake ELSE now
  /\ loc' = [loc EXCEPT ![i] = NoLoc]
  /\ pc' = [pc EXCEPT ![i] = "start"]
  /\ UNCHANGED << files, ledger, reports, env, walk, cyc, hist >>
  /\ UNCHANGED << an, rt, fx, gr, remoteVars >>

\* lines 167-168: KeyboardInterrupt ends the loop, wherever it is
Interrupt(i) ==
  /\ pc[i] \notin {"off", "crashed", "stopped"}
  /\ pc' = [pc EXCEPT ![i] = "stopped"]
  /\ hist' = [hist EXCEPT !.stoppedAt[i] =
                         IF pc[i] = "upsert" THEN "upsert" ELSE "elsewhere"]
  /\ loc' = [loc EXCEPT ![i] = NoLoc]
  /\ walk' = [walk EXCEPT ![i] = NoWalk]
  /\ UNCHANGED << files, ledger, reports, now, env, cyc >>
  /\ UNCHANGED << an, rt, fx, gr, remoteVars >>

\* the salesperson's chat export is created or overwritten
ExternalWrite ==
  /\ env.writes < MaxWrites
  /\ \E s \in DynSlots : \E b \in SlotBytes(s) :
       /\ files[s] /= b
       /\ files' = [files EXCEPT ![s] = b]
       /\ hist' = [hist EXCEPT !.written[s] = @ + 1]
  /\ env' = [env EXCEPT !.writes = @ + 1]
  /\ UNCHANGED << ledger, reports, now, pc, walk, loc, cyc >>
  /\ UNCHANGED << an, rt, fx, gr, remoteVars >>

\* the file is removed
ExternalDelete ==
  /\ env.writes < MaxWrites
  /\ \E s \in DynSlots :
       /\ files[s] /= Absent
       /\ files' = [files EXCEPT ![s] = Absent]
  /\ env' = [env EXCEPT !.writes = @ + 1]
  /\ UNCHANGED << ledger, reports, now, pc, walk, loc, cyc, hist >>
  /\ UNCHANGED << an, rt, fx, gr, remoteVars >>

LocalStep(i) ==
  \/ StartCycle(i)
  \/ LocalList(i)
  \/ LocalHash(i)
  \/ LocalGet(i)
  \/ LocalRead(i)
  \/ LocalAnalyze(i)
  \/ LocalStamp(i)
  \/ LocalOpen(i)
  \/ LocalWrite(i)
  \/ LocalUpsert(i)
  \/ LocalSleepStep(i)
  \/ LocalWake(i)
  \/ Interrupt(i)

NextLocal ==
  \/ \E i \in Instances : LocalStep(i)
  \/ ExternalWrite
  \/ ExternalDelete

(***************************************************************************)
(* Remote variant: cloud_worker.py, process_file and worker_loop.          *)
(***************************************************************************)
\* line 65
vendedores == << "Vendedor_Ana", "Vendedor_Bruno", "Vendedor_Carlos" >>
\* time.sleep(30) after a pass without exception (line 86)
SteadySleep == 30
\* time.sleep(30) in the handler of the loop's except (line 90)
BackoffSleep == 30

\* object keys of the input bucket, as token sequences
Key(vendedor, fname) == << vendedor, "/" >> \o fname
AnaObj == Key("Vendedor_Ana", <<"cliente1", ".txt">>)
AnaObj2 == Key("Vendedor_Ana", <<"cliente2", ".txt">>)
BrunoObj == Key("Vendedor_Bruno", <<"x", ".txt">>)
RemoteObjs == {AnaObj, AnaObj2, BrunoObj}
ObjBytes(k) == IF k = AnaObj THEN {"A", "B"} ELSE {"A"}
Placeholder == << ".emptyFolderPlaceholder" >>

\* "/" in fname
HasSlash(fname) == \E n \in 1..Len(fname) : fname[n] = "/"
\* line 81 with the test for "/" left out: every entry gets the folder prefix
full_path_prefixed(vendedor, fname) == Key(vendedor, fname)
\* line 81
full_path(vendedor, fname) == IF HasSlash(fname) THEN fname ELSE Key(vendedor, fname)
\* file_path.replace("/", "_")
ReplaceSlash(file_path) ==
  [n \in 1..Len(file_path) |-> IF file_path[n] = "/" THEN "_" ELSE file_path[n]]
\* line 47
report_name(file_path, timestamp) == [flat |-> ReplaceSlash(file_path), ts |-> timestamp]

\* the objects the bucket holds in a folder
ObjectsOf(vendedor, bucket) ==
  { k \in RemoteObjs : k[1] = vendedor /\ bucket[k] /= Absent }
\* storage.list(vendedor): the folder's placeholder and its objects in the
\* order the service gives them (listing), named either bare or with the
\* folder prefix
ListEntries(listing, shape) ==
  << Placeholder >> \o
  [n \in 1..Len(listing) |->
     IF shape = "full" THEN listing[n] ELSE SubSeq(listing[n], 3, Len(listing[n]))]
Shapes == {"bare", "full"}
\* lines 76-81 over a whole listing: the paths of its .txt entries, in the
\* order of the listing
Targets(vendedor, entries) ==
  LET txts == SelectSeq(entries, EndsWithTxt)
  IN [n \in 1..Len(txts) |-> full_path(vendedor, txts[n])]

\* the for loop of line 76 not advancing: the first .txt entry is taken and
\* stays in the list
NextTarget_stuck(vendedor, resLeft) ==
  LET txts == SelectSeq(resLeft, EndsWithTxt)
  IN IF txts = << >>
     THEN [found |-> FALSE, fname |-> << >>, file_path |-> << >>, resLeft |-> << >>]
     ELSE [found |-> TRUE, fname |-> Head(txts),
           file_path |-> full_path(vendedor, Head(txts)), resLeft |-> txts]

\* lines 76-83: the next entry of res that ends in .txt, with its target path
RECURSIVE NextTarget(_, _)
NextTarget(vendedor, resLeft) ==
  IF resLeft = << >>
  THEN [found |-> FALSE, fname |-> << >>, file_path |-> << >>, resLeft |-> << >>]
  ELSE IF EndsWithTxt(Head(resLeft))
       THEN [found |-> TRUE, fname |-> Head(resLeft),
             file_path |-> full_path(vendedor, Head(resLeft)),
             resLeft |-> Tail(resLeft)]
       ELSE NextTarget(vendedor, Tail(resLeft))

\* `placed` tells which placement of the object the download read
NoRLoc == [fname |-> << >>, file_path |-> << >>, text |-> Absent, response |-> EmptyStr,
           placed |-> 0]
NoRWalk == [vendedor |-> "", vendLeft |-> << >>, resLeft |-> << >>]
VendIndex(v) == CHOOSE n \in 1..Len(vendedores) : vendedores[n] = v

InitRemoteState(running) ==
  /\ bucketIn = [k \in RemoteObjs |-> Absent]
  /\ bucketOut = << >>
  /\ rpc = IF running THEN "start" ELSE "off"
  /\ rwalk = NoRWalk
  /\ rloc = NoRLoc
  /\ rcyc = [ n |-> 0, listFailed |-> 0, uploads |-> {}, succeeded |-> {},
              failed |-> {}, outAtStart |-> << >>, ledgerAtStart |-> {} ]
  /\ rhist = [ lastSleep |-> [duration |-> 0, afterListFailure |-> FALSE],
               placed |-> [k \in RemoteObjs |-> 0],
               invokes |-> [k \in RemoteObjs |-> 0],
               uploads |-> [k \in RemoteObjs |-> 0],
               done |-> [k \in RemoteObjs |-> FALSE],
               order |-> << >>, listed |-> << >> ]

\* line 67-69: a new pass of `while True`
RStartCycle ==
  /\ rpc = "start"
  /\ rcyc.n < MaxCycles
  /\ rpc' = "list"
  /\ rwalk' = [NoRWalk EXCEPT !.vendLeft = vendedores]
  /\ rcyc' = [ n |-> rcyc.n + 1, listFailed |-> 0, uploads |-> {}, succeeded |-> {},
               failed |-> {}, outAtStart |-> bucketOut, ledgerAtStart |-> ledger ]
  /\ rhist' = [rhist EXCEPT !.order = << >>, !.listed = << >>]
  /\ UNCHANGED << bucketIn, bucketOut, rloc, ledger, now, env >>
  /\ UNCHANGED << an, rt, fx, gr, localOnly >>

\* where the loop goes when storage.list raises: the except of line 88 ends
\* the pass
OnListError(vendLeft) == [rpc |-> "sleep_err", vendLeft |-> << >>]

\* the loop goes to the next .txt entry of res, else to the next vendedor
RMoveOn(vendedor, vendLeft, resLeft) ==
  LET nx == NextTarget(vendedor, resLeft)
  IN /\ rwalk' = [vendedor |-> vendedor, vendLeft |-> vendLeft, resLeft |-> nx.resLeft]
     /\ rloc' = [NoRLoc EXCEPT !.fname = nx.fname, !.file_path = nx.file_path]
     /\ rpc' = IF nx.found THEN "download" ELSE "list"

\* process_file returned: True after the removal, False from its except
RReturn(ok) ==
  /\ rcyc' = [rcyc EXCEPT !.succeeded = IF ok THEN @ \cup {rloc.file_path} ELSE @,
                          !.failed = IF ok THEN @ ELSE @ \cup {rloc.file_path}]
  /\ RMoveOn(rwalk.vendedor, rwalk.vendLeft, rwalk.resLeft)

\* line 73: res = storage.list(vendedor), or the end of the for loop
RList ==
  /\ rpc = "list"
  /\ IF rwalk.vendLeft = << >>
     THEN /\ rpc' = "sleep_ok"
          /\ rwalk' = NoRWalk
          /\ UNCHANGED << rloc, rcyc, env, rhist >>
     ELSE \E request_ok \in RequestOutcomes, shape \in Shapes :
            LET v == Head(rwalk.vendLeft)
            IN /\ env' = Fault(request_ok)
               /\ IF request_ok
                  THEN \E listing \in Perms(ObjectsOf(v, bucketIn)) :
                         LET res == ListEntries(listing, shape)
                         IN /\ RMoveOn(v, Tail(rwalk.vendLeft), res)
                            /\ rhist' = [rhist EXCEPT
                                           !.listed = @ \o Targets(v, res)]
                            /\ UNCHANGED rcyc
                  ELSE /\ rpc' = OnListError(rwalk.vendLeft).rpc
                       /\ rwalk' = [NoRWalk EXCEPT
                                      !.vendLeft = OnListError(rwalk.vendLeft).vendLeft]
                       /\ rcyc' = [rcyc EXCEPT !.listFailed =
                                     IF @ = 0 THEN VendIndex(v) ELSE @]
                       /\ UNCHANGED << rloc, rhist >>
  /\ UNCHANGED << bucketIn, bucketOut, ledger, now >>
  /\ UNCHANGED << an, rt, fx, gr, localOnly >>

\* lines 39-40: download and decode
RDownload ==
  /\ rpc = "download"
  /\ \E request_ok \in RequestOutcomes :
       LET k == rloc.file_path
           there == k \in DOMAIN bucketIn /\ bucketIn[k] /= Absent
       IN /\ env' = Fault(request_ok)
          /\ IF request_ok /\ there /\ Decodable(bucketIn[k])
             THEN /\ rloc' = [rloc EXCEPT !.text = bucketIn[k],
                                           !.placed = rhist.placed[k]]
                  /\ rpc' = "invoke"
                  /\ UNCHANGED << rwalk, rcyc >>
             ELSE RReturn(FALSE)
  /\ rhist' = [rhist EXCEPT !.order = Append(@, rloc.file_path)]
  /\ UNCHANGED << bucketIn, bucketOut, ledger, now >>
  /\ UNCHANGED << an, rt, fx, gr, localOnly >>

\* line 44: response = llm.invoke(...); the clock goes on during the call,
\* whether it answers or raises (line 47 reads it once the answer is there)
RInvoke ==
  /\ rpc = "invoke"
  /\ \E o \in { x \in LoopOutcomes : x.ok \in RequestOutcomes } :
       /\ env' = Fault(o.ok)
       /\ rhist' = [rhist EXCEPT !.invokes[rloc.file_path] =
                      IF o.ok /\ rloc.placed = rhist.placed[rloc.file_path]
                      THEN @ + 1 ELSE @]
       /\ IF o.ok
          THEN /\ rloc' = [rloc EXCEPT !.response = o.content]
               /\ rpc' = "upload"
               /\ UNCHANGED << rwalk, rcyc >>
          ELSE RReturn(FALSE)
       /\ \E d \in LlmSeconds : now' = now + d
  /\ UNCHANGED << bucketIn, bucketOut, ledger >>
  /\ UNCHANGED << an, rt, fx, gr, localOnly >>

\* lines 47-54: the report is uploaded; the bucket refuses a name it holds
RUpload ==
  /\ rpc = "upload"
  /\ \E request_ok \in RequestOutcomes :
       LET name == report_name(rloc.file_path, now)
       IN /\ env' = Fault(request_ok)
          /\ IF request_ok /\ name \notin DOMAIN bucketOut
             THEN /\ bucketOut' = (name :> rloc.response) @@ bucketOut
                  /\ rpc' = "remove"
                  /\ rcyc' = [rcyc EXCEPT !.uploads = @ \cup {VendIndex(rwalk.vendedor)}]
                  /\ rhist' = [rhist EXCEPT !.uploads[rloc.file_path] =
                                 IF rloc.placed = rhist.placed[rloc.file_path]
                                 THEN @ + 1 ELSE @]
                  /\ UNCHANGED << rwalk, rloc >>
             ELSE /\ RReturn(FALSE)
                  /\ UNCHANGED << bucketOut, rhist >>
  /\ UNCHANGED << bucketIn, ledger, now >>
  /\ UNCHANGED << an, rt, fx, gr, localOnly >>

\* the removal that removes nothing
remove_nothing(bucket, file_path) == bucket
\* storage.remove([file_path])
remove_object(bucket, file_path) ==
  [k \in DOMAIN bucket |-> IF k = file_path THEN Absent ELSE bucket[k]]

\* lines 57-58: the input object is removed
RRemove ==
  /\ rpc = "remove"
  /\ \E request_ok \in RequestOutcomes :
       /\ env' = Fault(request_ok)
       /\ IF request_ok
          THEN /\ bucketIn' = remove_object(bucketIn, rloc.file_path)
               /\ rhist' = [rhist EXCEPT !.done[rloc.file_path] = TRUE]
               /\ RReturn(TRUE)
          ELSE /\ RReturn(FALSE)
               /\ UNCHANGED << bucketIn, rhist >>
  /\ UNCHANGED << bucketOut, ledger, now >>
  /\ UNCHANGED << an, rt, fx, gr, localOnly >>

\* line 86
RSleepOk ==
  /\ rpc = "sleep_ok"
  /\ now' = now + SteadySleep
  /\ rhist' = [rhist EXCEPT !.lastSleep =
                 [duration |-> SteadySleep, afterListFailure |-> rcyc.listFailed > 0]]
  /\ rpc' = "start"
  /\ UNCHANGED << bucketIn, bucketOut, rwalk, rloc, rcyc, ledger, env >>
  /\ UNCHANGED << an, rt, fx, gr, localOnly >>

\* lines 88-90
RSleepErr ==
  /\ rpc = "sleep_err"
  /\ now' = now + BackoffSleep
  /\ rhist' = [rhist EXCEPT !.lastSleep =
                 [duration |-> BackoffSleep, afterListFailure |-> rcyc.listFailed > 0]]
  /\ rpc' = "start"
  /\ UNCHANGED << bucketIn, bucketOut, rwalk, rloc, rcyc, ledger, env >>
  /\ UNCHANGED << an, rt, fx, gr, localOnly >>

\* a salesperson's chat export is put into the input bucket
RemoteUpload ==
  /\ env.writes < MaxWrites
  /\ \E k \in RemoteObjs : \E b \in ObjBytes(k) :
       /\ bucketIn[k] /= b
       /\ bucketIn' = [bucketIn EXCEPT ![k] = b]
       /\ rhist' = [rhist EXCEPT !.placed[k] = @ + 1, !.invokes[k] = 0,
                                 !.uploads[k] = 0, !.done[k] = FALSE]
  /\ env' = [env EXCEPT !.writes = @ + 1]
  /\ UNCHANGED << bucketOut, rpc, rwalk, rloc, rcyc, ledger, now >>
  /\ UNCHANGED << an, rt, fx, gr, localOnly >>

NextRemote ==
  \/ RStartCycle
  \/ RList
  \/ RDownload
  \/ RInvoke
  \/ RUpload
  \/ RRemove
  \/ RSleepOk
  \/ RSleepErr
  \/ RemoteUpload

(***************************************************************************)
(* FluxImageTool._run (cloud_worker.py 204-244).  One call of the tool:    *)
(* the decorator retry(stop=stop_after_attempt(Config.MAX_RETRIES),        *)
(* wait=wait_exponential(multiplier=1, min=2, max=10)) re-enters the body  *)
(* whenever the body raises, and the body raises only on a timeout.        *)
(***************************************************************************)
\* Config.MAX_RETRIES
MAX_RETRIES == 3

\* characters of a prompt: a letter, a blank and a quote
FluxTok == {"x", " ", "'"}
FluxPrompts == UNION { [1..n -> FluxTok] : n \in 0..MaxLen }

\* what requests.post can do: answer 200, answer another status, time out,
\* or fail with another exception
FluxOutcomes == {"ok200", "status500", "timeout", "connection_error"}

\* str(prompt).strip().replace('"', '').replace("'", "")
prompt_limpo(prompt) == RemoveAll(RemoveAll(Strip(prompt), "\""), "'")

\* the body of _run re-raising every exception instead of only a timeout
FluxBody_raise_all(outcome, written) == IF outcome = "ok200" /\ written THEN "path" ELSE "reraise"

\* the body of _run on one attempt: the saved path for a 200 whose image was
\* written, a re-raise for a timeout, the error string for everything else
\* (a 200 whose file cannot be written raises inside the try and is caught by
\* except Exception)
FluxBody(outcome, written) ==
  IF outcome = "ok200"
    THEN IF written THEN "path" ELSE "error"
    ELSE IF outcome = "timeout" THEN "reraise" ELSE "error"

\* stop_after_attempt(Config.MAX_RETRIES)
stop_after_attempt(attempt_number) == attempt_number >= MAX_RETRIES

\* wait_exponential(multiplier=1, min=2, max=10): 2^(n-1) clamped to [2, 10]
wait_exponential(attempt_number) ==
  LET exp == 2 ^ (attempt_number - 1)
      capped == IF exp > 10 THEN 10 ELSE exp
  IN  IF capped < 2 THEN 2 ELSE capped

FxIdle == [pc |-> "idle", prompt |-> EmptyStr, sent |-> EmptyStr, attempts |-> 0,
           last |-> "none", written |-> FALSE, result |-> "none", waited |-> 0]

InitFx ==
  \E p \in FluxPrompts :
    fx = [FxIdle EXCEPT !.pc = "attempt", !.prompt = p]

\* one pass through the body of _run, then the decorator's decision
FluxAttempt ==
  /\ fx.pc = "attempt"
  /\ \E outcome \in FluxOutcomes, ok \in BOOLEAN :
       LET written == outcome = "ok200" /\ ok
           verdict == FluxBody(outcome, written)
           n       == fx.attempts + 1
       IN  /\ outcome /= "ok200" => ok
           /\ fx' = [fx EXCEPT
                !.sent = prompt_limpo(fx.prompt),
                !.attempts = n,
                !.last = outcome,
                !.written = written,
                !.pc = IF verdict = "reraise"
                         THEN IF stop_after_attempt(n) THEN "raised" ELSE "wait"
                         ELSE "returned",
                !.result = IF verdict = "reraise"
                             THEN IF stop_after_attempt(n) THEN "RetryError" ELSE "none"
                             ELSE verdict]
  /\ UNCHANGED << an, rt, gr, sharedVars, localOnly, remoteVars >>

\* the decorator sleeps before the next attempt
FluxWait ==
  /\ fx.pc = "wait"
  /\ fx' = [fx EXCEPT !.pc = "attempt",
                      !.waited = fx.waited + wait_exponential(fx.attempts)]
  /\ UNCHANGED << an, rt, gr, sharedVars, localOnly, remoteVars >>

(***************************************************************************)
(* The content graph of main.py (72-191).  One run of app.stream: the      *)
(* nodes analisar, post, prompt_imagem and imagem are chained by plain     *)
(* edges, the conditional edge after imagem asks the reviewer, and salvar  *)
(* leads to END.  No node catches an exception, so a call that raises ends *)
(* the run where it is.                                                    *)
(***************************************************************************)
PyTrue == <<"True">>

\* what the language model can answer: nothing, a word, a word in blanks
GraphTexts == {EmptyStr, <<"a">>, <<" ", "b", " ">>}
\* what the user can paste as the raw idea
GraphInputs == {<<"idea">>, <<"x", " ">>}

\* what the reviewer can type at the prompt of revisar_input
AnswerTok == {"s", "S", "n", " "}
Answers == UNION { [1..n -> AnswerTok] : n \in 0..MaxLen }

\* str.lower()
Lower(s) ==
  [i \in DOMAIN s |-> IF s[i] = "S" THEN "s" ELSE IF s[i] = "N" THEN "n" ELSE s[i]]

\* initial_state (main.py 199-207)
initial_state(entrada_usuario) ==
  [input_text |-> entrada_usuario, estrutura |-> None, post |-> None,
   image_prompt |-> None, image_path |-> None, approved |-> None, timestamp |-> None]

\* analisar_estrutura: {"estrutura": resp.content}
analisar_estrutura(state, content) == [state EXCEPT !.estrutura = content]

\* gerar_post: {"post": resp.content}
gerar_post(state, content) == [state EXCEPT !.post = content]

\* gerar_prompt_imagem: {"image_prompt": resp.content.strip()}
gerar_prompt_imagem(state, content) == [state EXCEPT !.image_prompt = Strip(content)]

\* FluxImageTool.run of main.py: a simulated path, whatever the prompt
flux_tool_run(prompt) == <<"imagem_gerada_", "time", ".png">>

\* gerar_imagem: {"image_path": flux_tool.run(state["image_prompt"])}
gerar_imagem(state) == [state EXCEPT !.image_path = flux_tool_run(state.image_prompt)]

\* a reviewer function that sends every answer to salvar
revisar_input_always(resp) == "salvar"

\* revisar_input: input(...).lower() compared with "s"
revisar_input(resp) == IF Lower(resp) = <<"s">> THEN "salvar" ELSE "abortar"

\* datetime.now().strftime("%Y_%m_%d__%H_%M_%S")
GraphTimestamp == <<"%Y_%m_%d__%H_%M_%S">>

\* salvar_resultado: the file post_linkedin_{timestamp}.md and its content
salvar_resultado(resultado, entrada_usuario, timestamp) ==
  [filename |-> <<"post_linkedin_">> \o timestamp \o <<".md">>,
   content  |-> Encode(<<"# Post LinkedIn Gerado em ">> \o timestamp
                       \o <<"\n\n## Entrada Original\n">> \o entrada_usuario
                       \o <<"\n\n## --- CONTEUDO FINAL ---\n">>
                       \o (IF Truthy(resultado) THEN resultado
                           ELSE <<"Conteudo salvo via estado.">>)
                       \o <<"\n">>)]

\* salvar: {"timestamp": timestamp, "approved": True}
salvar(state, timestamp) == [state EXCEPT !.timestamp = timestamp, !.approved = PyTrue]

GrIdle == [pc |-> "idle", state |-> initial_state(EmptyStr), trace |-> << >>,
           answer |-> None, failed |-> "none", out |-> {}]

InitGr ==
  \E entrada \in GraphInputs :
    gr = [GrIdle EXCEPT !.pc = "analisar", !.state = initial_state(entrada)]

GraphRaise(node) == gr' = [gr EXCEPT !.pc = "raised", !.failed = node]

\* node analisar, then the edge to post
GraphAnalisar ==
  /\ gr.pc = "analisar"
  /\ \/ \E content \in GraphTexts :
          gr' = [gr EXCEPT !.state = analisar_estrutura(gr.state, content),
                           !.trace = Append(gr.trace, "analisar"), !.pc = "post"]
     \/ GraphRaise("analisar")
  /\ UNCHANGED << an, rt, fx, sharedVars, localOnly, remoteVars >>

\* node post, then the edge to prompt_imagem
GraphPost ==
  /\ gr.pc = "post"
  /\ \/ \E content \in GraphTexts :
          gr' = [gr EXCEPT !.state = gerar_post(gr.state, content),
                           !.trace = Append(gr.trace, "post"), !.pc = "prompt_imagem"]
     \/ GraphRaise("post")
  /\ UNCHANGED << an, rt, fx, sharedVars, localOnly, remoteVars >>

\* node prompt_imagem, then the edge to imagem
GraphPromptImagem ==
  /\ gr.pc = "prompt_imagem"
  /\ \/ \E content \in GraphTexts :
          gr' = [gr EXCEPT !.state = gerar_prompt_imagem(gr.state, content),
                           !.trace = Append(gr.trace, "prompt_imagem"), !.pc = "imagem"]
     \/ GraphRaise("prompt_imagem")
  /\ UNCHANGED << an, rt, fx, sharedVars, localOnly, remoteVars >>

\* node imagem, then the conditional edge: revisar_input reads the reviewer's
\* answer (input() raises when the input stream is closed)
GraphImagem ==
  /\ gr.pc = "imagem"
  /\ \/ \E resp \in Answers :
          gr' = [gr EXCEPT !.state = gerar_imagem(gr.state),
                           !.trace = Append(gr.trace, "imagem"),
                           !.answer = resp,
                           !.pc = IF revisar_input(resp) = "salvar" THEN "salvar" ELSE "END"]
     \/ gr' = [gr EXCEPT !.state = gerar_imagem(gr.state),
                         !.trace = Append(gr.trace, "imagem"),
                         !.pc = "raised", !.failed = "revisar_input"]
  /\ UNCHANGED << an, rt, fx, sharedVars, localOnly, remoteVars >>

\* node salvar, then the edge to END.  open() can fail before the file
\* exists, and write() can fail after open() created it, leaving it empty
\* or with a first part of the content.
GraphSalvar ==
  /\ gr.pc = "salvar"
  /\ LET f == salvar_resultado(gr.state.post, gr.state.input_text, GraphTimestamp)
     IN  \/ gr' = [gr EXCEPT !.state = salvar(gr.state, GraphTimestamp),
                             !.trace = Append(gr.trace, "salvar"),
                             !.out = {f}, !.pc = "END"]
         \/ GraphRaise("salvar")
         \/ \E part \in Torn(f.content) :
              gr' = [gr EXCEPT !.pc = "raised", !.failed = "salvar",
                               !.out = {[f EXCEPT !.content = part]}]
  /\ UNCHANGED << an, rt, fx, sharedVars, localOnly, remoteVars >>

(***************************************************************************)
(* Specifications.                                                         *)
(***************************************************************************)
\* the local watchdog, one process
Init == InitLocalState({1}) /\ InitRemoteState(FALSE) /\ an = AnIdle /\ rt = RtIdle /\ fx = FxIdle /\ gr = GrIdle
Next == NextLocal
Spec == Init /\ [][Next]_vars

\* the remote worker
InitRemote == InitLocalState({}) /\ InitRemoteState(TRUE) /\ an = AnIdle /\ rt = RtIdle /\ fx = FxIdle /\ gr = GrIdle
SpecRemote == InitRemote /\ [][NextRemote]_vars

\* the local watchdog started on a directory that holds cliente1.txt and
\* cliente1.txt.txt
InitTwins == InitLocalFrom({1}, TwinInputs) /\ InitRemoteState(FALSE) /\ an = AnIdle /\ rt = RtIdle /\ fx = FxIdle /\ gr = GrIdle
\* no file is written or removed while it runs, and it is not interrupted
NextTwins ==
  \/ StartCycle(1)
  \/ LocalList(1)
  \/ LocalHash(1)
  \/ LocalGet(1)
  \/ LocalRead(1)
  \/ LocalAnalyze(1)
  \/ LocalStamp(1)
  \/ LocalOpen(1)
  \/ LocalWrite(1)
  \/ LocalUpsert(1)
  \/ LocalSleepStep(1)
  \/ LocalWake(1)
SpecTwins == InitTwins /\ [][NextTwins]_vars

\* the local watchdog started on a directory that holds
\* Vendedor_Ana/2024/c.txt; no file is written or removed while it runs
InitDeep == InitLocalFrom({1}, DeepInputs) /\ InitRemoteState(FALSE) /\ an = AnIdle /\ rt = RtIdle /\ fx = FxIdle /\ gr = GrIdle
SpecDeep == InitDeep /\ [][NextTwins]_vars

\* the local watchdog started on a directory that holds cliente1.txt
InitOne == InitLocalFrom({1}, OneInput) /\ InitRemoteState(FALSE) /\ an = AnIdle /\ rt = RtIdle /\ fx = FxIdle /\ gr = GrIdle
SpecOne == InitOne /\ [][Next]_vars

\* two watchdog processes started on the same directory, which holds
\* cliente1.txt, and the same table
InitTwo == InitLocalFrom(Instances, OneInput) /\ InitRemoteState(FALSE) /\ an = AnIdle /\ rt = RtIdle /\ fx = FxIdle /\ gr = GrIdle
\* the steps of a watchdog process itself
WatchdogStep(i) ==
  \/ StartCycle(i)
  \/ LocalList(i)
  \/ LocalHash(i)
  \/ LocalGet(i)
  \/ LocalRead(i)
  \/ LocalAnalyze(i)
  \/ LocalStamp(i)
  \/ LocalOpen(i)
  \/ LocalWrite(i)
  \/ LocalUpsert(i)
  \/ LocalSleepStep(i)
  \/ LocalWake(i)
\* two processes started together, each making one pass less than a process
\* on its own
NextTwo == \E i \in Instances : WatchdogStep(i) /\ cyc'[i].n < MaxCycles
SpecTwo == InitTwo /\ [][NextTwo]_vars

\* analyze_update alone
InitAnalyzeAll ==
  InitAnalyze /\ InitLocalState({}) /\ InitRemoteState(FALSE) /\ rt = RtIdle /\ fx = FxIdle /\ gr = GrIdle
NextAnalyze == AnalyzeCall
SpecAnalyze == InitAnalyzeAll /\ [][NextAnalyze]_vars

\* the ledger round trip alone
InitRoundTrip ==
  InitRt /\ InitLocalState({}) /\ InitRemoteState(FALSE) /\ an = AnIdle /\ fx = FxIdle /\ gr = GrIdle
NextRoundTrip == RtUpdate \/ RtGet
SpecRoundTrip == InitRoundTrip /\ [][NextRoundTrip]_vars

(***************************************************************************)
(* Properties.                                                             *)
(***************************************************************************)
\* the digests the ledger holds for a local file's path
StoredHashes(table, s) ==
  { r.last_hash : r \in Rows(table, relative_path(s.root, s.filename)) }
\* the ledger holds a non-empty summary for a local file's path
HasSummary(table, s) ==
  \E r \in Rows(table, relative_path(s.root, s.filename)) : Truthy(r.last_summary)
\* a local pass is over: the walk ended, or an exception ended the loop
PassOver(i) == pc[i] \in {"sleep", "asleep", "crashed"}
\* a remote pass is over
RPassOver == rpc \in {"sleep_ok", "sleep_err"}
\* the analyzer has been called for the item the process is at
Analyzed(i) == pc[i] \in {"stamp", "open", "write", "upsert"}

\* C1 as stated: once a file's bytes have been processed in a pass, no later
\* pass in which the file holds the same bytes calls the analyzer (or the
\* upsert, which only follows it) for that file.
C1_Original ==
  \A s \in DynSlots :
    (Analyzed(1) /\ loc[1].slot = s) => loc[1].hashed \notin hist.processed[s]

\* C1 amended: in a pass in which the ledger lookup for a file's path succeeds
\* and returns the digest of the file's bytes (so the file was processed, its
\* upsert succeeded and nothing else was stored since), there are zero
\* analyzer calls and zero ledger upserts for that path.
C1_Amended ==
  \A s \in DynSlots :
    cyc[1].unchanged[s] =>
      /\ hist.processed[s] /= {}
      /\ cyc[1].analyze[s] = 0
      /\ cyc[1].upsert[s] = 0

\* a second pass has seen cliente1.txt unchanged after an earlier pass
\* processed it
C1_Witness ==
  /\ cyc[1].n >= 2
  /\ pc[1] = "sleep"
  /\ cyc[1].unchanged[AnaC1]
  /\ "A" \in hist.processed[AnaC1]
  /\ cyc[1].analyze[AnaC1] = 0

\* C2: a pass that sees a .txt file whose digest differs from the one the
\* ledger holds for its path (or that has no record) makes exactly one
\* analyzer call and exactly one ledger upsert for that path.
C2_Claim ==
  \A s \in DynSlots :
    (PassOver(1) /\ cyc[1].changed[s]) =>
      cyc[1].analyze[s] = 1 /\ cyc[1].upsert[s] = 1

\* C3: the upsert that follows a degraded analysis (provider error) leaves
\* the digest the ledger holds for the path as it was.
C3_Claim ==
  [][ \A s \in DynSlots :
        (pc[1] = "upsert" /\ loc[1].slot = s /\ ~loc[1].provider_ok)
          => StoredHashes(ledger', s) = StoredHashes(ledger, s) ]_vars

\* C4: an exception raised while reading an item or writing its report is
\* caught at the item boundary: it never ends the loop.
C4_Claim ==
  \A i \in Instances :
    ~(pc[i] = "crashed" /\ hist.crashAt[i] \in {"read", "write"})

\* C5: the loop has no terminal state other than the one an external
\* interrupt leads to.
C5_Claim ==
  \A i \in Instances :
    pc[i] \in {"crashed", "stopped"} => hist.stoppedAt[i] /= "none"

\* C6: for a response without the [RESUMO] marker analyze_update returns the
\* previous summary (the placeholder when there is none) and a non-empty
\* report, and raises nothing.
C6_Claim ==
  (an.pc = "returned" /\ an.outcome.ok /\ FirstIdx(an.outcome.content, RESUMO) = 0)
    => /\ an.result.new_summary = (IF an.prev = None THEN ResumoMantido ELSE an.prev)
       /\ an.result.report /= EmptyStr
       /\ ~an.result.raised

\* C7: a path whose ledger record holds a non-empty summary still has a
\* non-empty summary after every step, whatever the model returns.
C7_Claim ==
  [][ \A s \in DynSlots : HasSummary(ledger, s) => HasSummary(ledger', s) ]_vars

\* the reports the output bucket holds for an input key
ReportsFor(k) == { n \in DOMAIN bucketOut : n.flat = ReplaceSlash(k) }

\* C8: after a remote pass in which process_file succeeded for a key, the
\* object is gone from the input bucket, the output bucket holds exactly one
\* report for it, and the ledger has a record for the key with a summary.
C8_Claim ==
  \A k \in RemoteObjs :
    (RPassOver /\ k \in rcyc.succeeded) =>
      /\ bucketIn[k] = Absent
      /\ Cardinality(ReportsFor(k)) = 1
      /\ \E r \in ledger : r.file_path = k /\ r.last_summary /= None

\* C9: the sleep that follows a pass in which the listing failed has a
\* duration other than the steady-state interval.
C9_Claim ==
  rhist.lastSleep.afterListFailure => rhist.lastSleep.duration /= SteadySleep

\* C10: at the end of a pass in which a listing call failed, for whichever
\* namespace, the output bucket and the ledger are as they were at its start.
C10_Claim ==
  (RPassOver /\ rcyc.listFailed > 0) =>
    bucketOut = rcyc.outAtStart /\ ledger = rcyc.ledgerAtStart

\* process_file is running on rloc.file_path
InProcessFile == rpc \in {"download", "invoke", "upload", "remove"}
\* the file's name inside its folder, whichever way the listing named it
NameInFolder(fname) == IF HasSlash(fname) THEN SubSeq(fname, 3, Len(fname)) ELSE fname

\* C11: whenever process_file runs, its key is the folder of the listing, a
\* slash and the file's name, whether the listing named the entry bare or
\* with the folder prefix; it is the key of an object of the input bucket.
C11_Claim ==
  InProcessFile =>
    /\ rloc.file_path = Key(rwalk.vendedor, NameInFolder(rloc.fname))
    /\ rloc.file_path \in RemoteObjs
\* an entry listed with its folder prefix reached the removal step under
\* the object's key, after a first object was processed and removed
C11_Witness ==
  /\ rpc = "remove"
  /\ HasSlash(rloc.fname)
  /\ rloc.file_path = BrunoObj
  /\ AnaObj \in rcyc.succeeded
  /\ bucketIn[AnaObj] = Absent

\* C12: no report write replaces a report written before: the name a write
\* uses is not yet a name of the sink.
C12_Claim ==
  [][ \A i \in Instances :
        (pc[i] = "open" /\ pc'[i] = "write") =>
          ReportName(loc[i].slot.root, loc[i].slot.filename, loc[i].timestamp)
            \notin DOMAIN reports
    ]_vars

\* C13: once process_file has succeeded for an object, the object is gone
\* from the input bucket and process_file does not run on its key again
\* (until a new object is placed under the key); the worker leaves the
\* ledger alone.
C13_Claim ==
  /\ \A k \in RemoteObjs :
        rhist.done[k] =>
          /\ bucketIn[k] = Absent
          /\ ~(InProcessFile /\ rloc.file_path = k)
  /\ ledger = {}
\* a second pass ended without touching the object the first pass finished
C13_Witness ==
  /\ rhist.done[AnaObj]
  /\ rcyc.n = 2
  /\ rpc = "sleep_ok"
  /\ rcyc.succeeded = {}
  /\ rcyc.failed = {}
  /\ bucketOut /= << >>

\* C14: an object placed in the input bucket causes at most one answered
\* model call and at most one report upload, over all passes.
C14_Claim ==
  \A k \in RemoteObjs : rhist.invokes[k] <= 1 /\ rhist.uploads[k] <= 1

\* C15: when the ledger lookup fails, get_file_state yields (None, None):
\* the pass goes on to read and analyze the item with no previous summary in
\* the prompt, and no exception ends the loop at the lookup.
C15_Claim ==
  /\ [](\A i \in Instances :
          /\ hist.crashAt[i] /= "get"
          /\ (Analyzed(i) /\ ~loc[i].lookup_ok) =>
                loc[i].last_summary = None /\ loc[i].prompt_context = EmptyStr)
  /\ [][ \A i \in Instances :
           (pc[i] = "get" /\ env'.faults = env.faults + 1) =>
             /\ pc'[i] = "read"
             /\ loc'[i].last_hash = None
             /\ loc'[i].last_summary = None
       ]_vars
\* the ledger holds a summary for the file, the lookup failed, and the file
\* was analyzed as if it had no record
C15_Witness ==
  /\ pc[1] = "write"
  /\ loc[1].slot = AnaC1
  /\ ~loc[1].lookup_ok
  /\ HasSummary(ledger, AnaC1)
  /\ loc[1].prompt_context = EmptyStr

\* C16: when the upsert fails, the ledger and the report sink stay as they
\* are, with the item's report in the sink, and the pass goes on to the
\* next item or to its sleep: no exception ends the loop at the upsert.
C16_Claim ==
  /\ [](\A i \in Instances : hist.crashAt[i] /= "upsert")
  /\ [][ \A i \in Instances :
           (pc[i] = "upsert" /\ env'.faults = env.faults + 1) =>
             /\ ledger' = ledger
             /\ reports' = reports
             /\ ReportName(loc[i].slot.root, loc[i].slot.filename, loc[i].timestamp)
                  \in DOMAIN reports'
             /\ pc'[i] \in {"hash", "list", "sleep"}
       ]_vars
\* the second version of a file was analyzed and reported, its upsert
\* failed, and the ledger still holds the first version's digest
C16_Witness ==
  /\ pc[1] = "sleep"
  /\ cyc[1].n = 2
  /\ cyc[1].upsert[AnaC1] = 1
  /\ files[AnaC1] = "B"
  /\ StoredHashes(ledger, AnaC1) = {calculate_file_hash("A")}
  /\ Cardinality(DOMAIN reports) = 2

\* C17: when the provider call fails, analyze_update returns the failure
\* placeholder as the report and the previous summary it was given as the
\* summary, and raises nothing.
C17_Claim ==
  (an.pc = "returned" /\ ~an.outcome.ok) =>
    /\ an.result.report = ErroNaAnalise
    /\ an.result.new_summary = an.prev
    /\ ~an.result.raised
\* the call failed with a previous summary of several words at hand
C17_Witness ==
  /\ an.pc = "returned"
  /\ ~an.outcome.ok
  /\ an.prev = <<"x", " ", "x">>
  /\ an.result.new_summary = <<"x", " ", "x">>

\* C18 as stated: whenever a changed file has been analyzed, the previous
\* summary handed to the analyzer is the summary stored by the most recent
\* successful upsert for the file's path (None when there was none).
C18_Original ==
  \A i \in Instances :
    Analyzed(i) => loc[i].last_summary = hist.lastSummary[loc[i].slot]

\* C18 amended: the same, for the analyses whose ledger lookup succeeded; the
\* prompt carries that summary when it is non-empty.
C18_Amended ==
  \A i \in Instances :
    (Analyzed(i) /\ loc[i].lookup_ok) =>
      /\ loc[i].last_summary = hist.lastSummary[loc[i].slot]
      /\ loc[i].prompt_context =
           (IF Truthy(loc[i].last_summary) THEN loc[i].last_summary ELSE EmptyStr)
\* the second version of a file was analyzed with the summary the first
\* analysis stored
C18_Witness ==
  /\ Analyzed(1)
  /\ loc[1].lookup_ok
  /\ cyc[1].n = 2
  /\ loc[1].slot = AnaC1
  /\ hist.lastSummary[AnaC1] = <<"x">>
  /\ loc[1].prompt_context = <<"x">>

\* C19 as stated: update_file_state followed by get_file_state of the same
\* path, with no write in between, returns the digest and the summary that
\* were stored.
C19_Original ==
  rt.pc = "done" => rt.got = << rt.current_hash, rt.summary >>

\* C19 amended: the same, when neither of the two requests failed.
C19_Amended ==
  (rt.pc = "done" /\ rt.update_ok /\ rt.get_ok) =>
    rt.got = << rt.current_hash, rt.summary >>
\* the path had a row with another digest and summary, and the round trip
\* returned what was stored
C19_Witness ==
  /\ rt.pc = "done"
  /\ rt.update_ok /\ rt.get_ok
  /\ rt.current_hash = calculate_file_hash("B")
  /\ rt.summary = EmptyStr
  /\ Cardinality(rt.table) = 2
  /\ rt.got = << calculate_file_hash("B"), EmptyStr >>

\* C20: the loop is never stopped by the interrupt between an item's report
\* write and its ledger update.
C20_Claim ==
  \A i \in Instances : hist.stoppedAt[i] /= "upsert"

\* one dispatcher process, of either variant: the local watchdog or the
\* remote worker
InitDispatcher == Init \/ InitRemote
NextDispatcher == (rpc = "off" /\ Next) \/ (rpc /= "off" /\ NextRemote)
SpecDispatcher == InitDispatcher /\ [][NextDispatcher]_vars

\* sequence a is an initial part of sequence b
IsPrefix(a, b) == Len(a) <= Len(b) /\ SubSeq(b, 1, Len(a)) = a

\* remote worker: the keys process_file was called on in this pass are an
\* initial part of what the listings of the pass gave, in their order; the
\* key in processing is the one taken last, the key about to be processed is
\* the next of the listing, and a folder is listed, and the pass ends, only
\* when every key listed so far has been processed
RemoteInOrder ==
  /\ IsPrefix(rhist.order, rhist.listed)
  /\ rpc = "download" =>
       /\ Len(rhist.listed) > Len(rhist.order)
       /\ rloc.file_path = rhist.listed[Len(rhist.order) + 1]
  /\ rpc \in {"invoke", "upload", "remove"} =>
       rhist.order /= << >> /\ rhist.order[Len(rhist.order)] = rloc.file_path
  /\ rpc \in {"start", "list", "sleep_ok", "sleep_err"} => rhist.order = rhist.listed

\* local watchdog: the same for the files of the directory the walk is in
LocalInOrder ==
  \A i \in Instances :
    /\ IsPrefix(cyc[i].order, cyc[i].listed)
    /\ pc[i] = "hash" =>
         /\ Len(cyc[i].listed) > Len(cyc[i].order)
         /\ loc[i].slot = cyc[i].listed[Len(cyc[i].order) + 1]
    /\ pc[i] \in {"get", "read", "analyze", "stamp", "open", "write", "upsert"} =>
         cyc[i].order /= << >> /\ cyc[i].order[Len(cyc[i].order)] = loc[i].slot
    /\ pc[i] \in {"start", "list", "sleep", "asleep"} => cyc[i].order = cyc[i].listed

\* a local pass begins when the pass before it has gone through every
\* directory and file
LocalPassesInTurn ==
  \A i \in Instances :
    cyc'[i].n = cyc[i].n + 1 =>
      pc[i] = "start" /\ walk[i] = NoWalk /\ cyc[i].order = cyc[i].listed

AtItem(i) == pc[i] \in {"hash", "get", "read", "analyze", "stamp", "open", "write", "upsert"}
\* the steps of processing one item
ItemStep(i) ==
  \/ LocalHash(i)
  \/ LocalGet(i)
  \/ LocalRead(i)
  \/ LocalAnalyze(i)
  \/ LocalStamp(i)
  \/ LocalOpen(i)
  \/ LocalWrite(i)
  \/ LocalUpsert(i)

\* C22: the core has no lock and no lease.  Nothing makes a watchdog process
\* wait for another: a process that is at an item can always take its next
\* step, whatever the other process is doing.  And nothing marks an item as
\* taken before its analysis is over: the ledger, the one record the
\* processes share, changes only in the upsert that follows an analysis.  So
\* both processes can be at the same file with the same bytes.
C22_Claim ==
  /\ [](\A i \in Instances : AtItem(i) => ENABLED ItemStep(i))
  /\ [][ ledger' /= ledger =>
           \E i \in Instances : pc[i] = "upsert" /\ pc'[i] /= "upsert" ]_vars
\* both processes have had the same bytes of the same file analyzed, each
\* after a lookup that succeeded and with an answer from the provider
C22_Witness ==
  /\ Analyzed(1) /\ Analyzed(2)
  /\ loc[1].slot = AnaC1 /\ loc[2].slot = AnaC1
  /\ loc[1].text = "A" /\ loc[2].text = "A"
  /\ loc[1].lookup_ok /\ loc[2].lookup_ok
  /\ loc[1].provider_ok /\ loc[2].provider_ok

\* the step of line 143 for process i: the lookup has answered and the loop
\* goes to read_file or to the next file
Decides(i) == pc[i] = "get" /\ pc'[i] \in {"read", "hash", "list", "sleep"}
\* the bytes that were hashed differ from what the ledger holds for the path
DigestDiffers(i) ==
  calculate_file_hash(loc[i].hashed) \notin StoredHashes(ledger, loc[i].slot)

\* C23 as stated: a file is analyzed in a pass exactly when the digest of
\* its bytes differs from the digest the ledger holds for its path.
C23_Original ==
  [][ \A i \in Instances : Decides(i) => (pc'[i] = "read" <=> DigestDiffers(i)) ]_vars

\* C23 amended: the same, for the passes in which the ledger lookup for the
\* path does not fail.
C23_Amended ==
  [][ \A i \in Instances :
        (Decides(i) /\ env'.faults = env.faults) =>
          (pc'[i] = "read" <=> DigestDiffers(i))
    ]_vars
\* the file was analyzed, then edited and put back to the bytes the ledger
\* holds the digest of, and the next pass ended without analyzing it
C23_Witness ==
  /\ pc[1] = "sleep"
  /\ cyc[1].n = 2
  /\ hist.written[AnaC1] = 2
  /\ files[AnaC1] = "A"
  /\ hist.processed[AnaC1] = {"A"}
  /\ cyc[1].unchanged[AnaC1]
  /\ cyc[1].analyze[AnaC1] = 0

\* C24: the ledger holds at most one record per path, and the record of a
\* path is the one the last successful upsert for the path wrote.
C24_Claim ==
  \A s \in DynSlots :
    /\ Cardinality(Rows(ledger, relative_path(s.root, s.filename))) <= 1
    /\ hist.lastStored[s] /= Absent =>
         /\ StoredHashes(ledger, s) = { calculate_file_hash(hist.lastStored[s]) }
         /\ \A r \in Rows(ledger, relative_path(s.root, s.filename)) :
              r.last_summary = hist.lastSummary[s]
\* two versions of a file were stored one after the other and the path has
\* the one record of the second
C24_Witness ==
  /\ hist.processed[AnaC1] = {"A", "B"}
  /\ hist.lastStored[AnaC1] = "B"
  /\ Cardinality(Rows(ledger, relative_path(AnaC1.root, AnaC1.filename))) = 1
  /\ Cardinality(DOMAIN reports) = 2

\* C25: every item the watchdog is at is a .txt file exactly one directory
\* below the input root, and the owner label (the name given to the
\* analyzer, the report directory, the ledger's salesperson) is the first
\* segment of the item's relative path.
C25_Claim ==
  \A i \in Instances :
    AtItem(i) =>
      LET s == loc[i].slot
      IN /\ EndsWithTxt(s.filename)
         /\ Len(s.root) = 2
         /\ basename(s.root) = relative_path(s.root, s.filename).dirs[1]

\* C26: with no request having failed, an object placed in the input bucket
\* is there for the next listing until it has been sent to the model: at the
\* end of a pass, an object that was placed and is no longer in the bucket
\* has been processed.
C26_Claim ==
  (rpc = "sleep_ok" /\ env.faults = 0) =>
    \A k \in RemoteObjs :
      (rhist.placed[k] > 0 /\ bucketIn[k] = Absent) => rhist.invokes[k] >= 1

\* C27: a failed download, model call or report upload leaves the input
\* bucket as it is, and an object leaves the input bucket only when a report
\* has been stored for it, that is for this placement of the object.
C27_Claim ==
  [][ /\ (rpc \in {"download", "invoke", "upload"} /\ env'.faults = env.faults + 1)
          => bucketIn' = bucketIn
      /\ \A k \in RemoteObjs :
           (bucketIn[k] /= Absent /\ bucketIn'[k] = Absent) => rhist.uploads[k] >= 1
    ]_vars

\* C28: the digest the watchdog is about to store for a file is the digest
\* of the text that was sent to the analyzer for it.
C28_Claim ==
  \A i \in Instances :
    Analyzed(i) => loc[i].current_hash = calculate_file_hash(loc[i].text)

\* the paths that have a record
RecordedPaths(table) == { r.file_path : r \in table }

\* C29: a step changes the ledger's records of at most one path, the path of
\* the item being processed, and no path loses its record.
C29_Claim ==
  [][ /\ RecordedPaths(ledger) \subseteq RecordedPaths(ledger')
      /\ \A i \in Instances :
           pc[i] = "upsert" =>
             \A p \in RecordedPaths(ledger) :
               p /= relative_path(loc[i].slot.root, loc[i].slot.filename)
                 => Rows(ledger', p) = Rows(ledger, p)
      /\ (\A i \in Instances : pc[i] /= "upsert") => ledger' = ledger
    ]_vars
\* the second version of cliente1.txt was stored in the second pass while
\* the record of x.txt, written in the first pass, is still there
C29_Witness ==
  /\ cyc[1].n = 2
  /\ cyc[1].upsert[AnaC1] = 1
  /\ cyc[1].upsert[BrunoX] = 0
  /\ hist.lastStored[AnaC1] = "B"
  /\ StoredHashes(ledger, AnaC1) = { calculate_file_hash("B") }
  /\ StoredHashes(ledger, BrunoX) = { calculate_file_hash("A") }


(***************************************************************************)
(* One call of FluxImageTool._run.  The call is a single thread of         *)
(* control, so a step that can be taken is taken.                          *)
(***************************************************************************)
InitFlux ==
  InitFx /\ InitLocalState({}) /\ InitRemoteState(FALSE) /\ an = AnIdle /\ rt = RtIdle /\ gr = GrIdle

NextFlux == FluxAttempt \/ FluxWait

SpecFlux == InitFlux /\ [][NextFlux]_vars /\ WF_vars(NextFlux)

FluxEnded == fx.pc \in {"returned", "raised"}

\* attempts are bounded, a further attempt follows only a timeout, and a
\* non-200 answer or another exception ends the call with the error string
FluxRetryRule ==
  /\ fx.attempts <= MAX_RETRIES
  /\ fx.pc = "wait" => fx.last = "timeout"
  /\ fx.attempts > 1 => fx.waited > 0
  /\ (FluxEnded /\ fx.last \in {"status500", "connection_error"})
       => fx.pc = "returned" /\ fx.result = "error"

\* C30 (as stated): at most MAX_RETRIES attempts per call, the call always
\* ends, only a timeout is retried, a non-200 answer or another exception
\* ends the call at once with the error string, and a 200 answer ends it with
\* the saved image path.
C30_Original ==
  /\ [](FluxRetryRule)
  /\ []((FluxEnded /\ fx.last = "ok200") => fx.result = "path")
  /\ <>FluxEnded

\* C30 (amended): as above, except that a 200 answer ends the call with the
\* saved image path only when the image file was written; a 200 answer whose
\* file cannot be written ends the call at once with the error string, and a
\* call whose MAX_RETRIES attempts all time out ends by raising RetryError.
C30_Amended ==
  /\ [](FluxRetryRule)
  /\ []((FluxEnded /\ fx.last = "ok200")
          => /\ fx.pc = "returned"
             /\ fx.result = (IF fx.written THEN "path" ELSE "error"))
  /\ []((FluxEnded /\ fx.last = "timeout")
          => fx.pc = "raised" /\ fx.result = "RetryError" /\ fx.attempts = MAX_RETRIES)
  /\ [](fx.result = "path" => fx.written /\ fx.last = "ok200")
  /\ <>FluxEnded

\* two attempts timed out and the third was answered 200 and saved
C30_Witness ==
  /\ fx.pc = "returned" /\ fx.attempts = MAX_RETRIES
  /\ fx.last = "ok200" /\ fx.written /\ fx.result = "path"
  /\ fx.sent /= fx.prompt


(***************************************************************************)
(* One run of the content graph of main.py.  app.stream drives the run on  *)
(* one thread, so a step that can be taken is taken.                       *)
(***************************************************************************)
InitGraph ==
  InitGr /\ InitLocalState({}) /\ InitRemoteState(FALSE) /\ an = AnIdle /\ rt = RtIdle /\ fx = FxIdle

NextGraph == GraphAnalisar \/ GraphPost \/ GraphPromptImagem \/ GraphImagem \/ GraphSalvar

SpecGraph == InitGraph /\ [][NextGraph]_vars /\ WF_vars(NextGraph)

GraphChain == <<"analisar", "post", "prompt_imagem", "imagem">>

GraphEnded == gr.pc \in {"END", "raised"}

\* the nodes that ran so far are an initial part of the chain followed by salvar
GraphInOrder ==
  /\ Len(gr.trace) <= Len(GraphChain) + 1
  /\ \A k \in DOMAIN gr.trace : gr.trace[k] = (GraphChain \o <<"salvar">>)[k]

GraphRanChain == Len(gr.trace) >= Len(GraphChain) /\ SubSeq(gr.trace, 1, Len(GraphChain)) = GraphChain

GraphRanSalvar == \E k \in DOMAIN gr.trace : gr.trace[k] = "salvar"

\* the output file is written in full and approved is True
GraphSaved ==
  /\ gr.out = {salvar_resultado(gr.state.post, gr.state.input_text, gr.state.timestamp)}
  /\ gr.state.approved = PyTrue

GraphNothingSaved ==
  /\ gr.state.approved = None
  /\ \A f \in gr.out :
       f.content \in Torn(salvar_resultado(gr.state.post, gr.state.input_text,
                                           GraphTimestamp).content)

=============================================================================
